---- MODULE Spec2Model ----
(***************************************************************************)
(* NewsHarvester: the news pipeline (newsService, embeddingService,        *)
(* storage, notificationService) as state machines.                        *)
(*                                                                         *)
(*   SpecDedup    one run of deduplicateArticles (phase 1, embeddings,     *)
(*                semantic loop)                                           *)
(*   SpecSearch   concurrent searchNews calls over the shared article      *)
(*                table                                                    *)
(*   SpecMonitor  the breaking-news monitor: timer ticks, overlapping      *)
(*                scans and the lastCheckTimes map                         *)
(*   SpecFetch    the adapter calls of one searchNews call                 *)
(*   SpecTrends   one getTrendingTopics call                               *)
(*   SpecJob      the hourly summary job of the scheduler                  *)
(*   SpecPoolFair the embedding requests of one run behind pLimit          *)
(*   SpecSocket   the websocket connection registry                        *)
(*   SpecBookmark concurrent POST /api/bookmarks requests                  *)
(***************************************************************************)
EXTENDS Integers, Sequences, FiniteSets, TLC

VARIABLES
    \* ---- deduplicateArticles (newsService) ----
    articles,          \* the argument: InsertArticle[]
    openaiKey,         \* process.env.OPENAI_API_KEY is set
    afterTitleDedup,   \* Array.from(titleDeduped.values())
    embeddingResults,  \* the awaited { article, embedding } list
    semanticDeduped,   \* the kept list of the semantic loop
    semIndex,          \* number of embeddingResults the loop has consumed
    dedupResult,       \* the value deduplicateArticles resolves to
    dpc,               \* position in deduplicateArticles
    \* ---- searchNews calls and the articles table ----
    table,             \* rows of the articles table
    nextId,            \* stands for gen_random_uuid(): a fresh id per row
    deduplicated,      \* per call: the list being persisted
    persistIndex,      \* per call: articles of deduplicated already handled
    persistedArticles, \* per call: rows collected so far
    createRet,         \* per call: outcome of the last storage.createArticle
    persistErrors,     \* per call: positions whose createArticle was caught
    sorted,            \* per call: the returned list
    spc,               \* per call: position in searchNews
    \* ---- breaking-news monitor ----
    clock,             \* wall clock, in units of 30 s
    firedAt,           \* clock value of the last timer callback
    lastCheckTimes,    \* Map<subscriptionId, Date>
    scans,             \* checkBreakingNewsForSubscription calls in flight
    finished,          \* the scan that returned last (none at the start)
    notifications,     \* the calls of sendNotificationToUser it made
    counted,           \* per subscription: urls some scan returned as new
    \* ---- the fetch part of one searchNews call ----
    keyword,           \* params.keyword
    source,            \* params.source ("" when absent)
    env,               \* which credentials process.env holds
    allArticles,       \* the list the adapters' articles are pushed to
    contribution,      \* per adapter: did it return, did it fail, its list
    pendingFetch,      \* adapters called and not yet returned
    fpc,               \* position in the fetch part
    \* ---- getTrendingTopics ----
    today,             \* Date.now(), in days
    queried,           \* the rows storage.searchArticles resolved to
    storeFailed,       \* storage.searchArticles rejected
    trendResult,       \* the returned TrendData[]
    tpc,               \* position in getTrendingTopics
    \* ---- the hourly summary job (setupScheduler) ----
    wallHour,          \* new Date().getHours()
    hoursRun,          \* hours the process has been up
    cronRan,           \* the cron callback of this hour has been called
    currentHour,       \* the hour the running job read at its start
    remaining,         \* subscriptions the job's loop has not reached yet
    mailed,            \* the client.send calls that went through
    jpc,               \* position in the job
    \* ---- the embedding requests of one deduplicateArticles run ----
    toEmbed,           \* afterTitleDedup.length
    queued,            \* pLimit's queue: calls that have not started
    active,            \* calls whose generateArticleEmbedding is in flight
    resolved,          \* calls whose promise has resolved
    epc,               \* position of deduplicateArticles around line 220
    \* ---- the websocket server ----
    connections,       \* Map<userId, Set<WebSocket>>
    readyState,        \* per socket: ws.readyState ("NONE" before it exists)
    hasSession,        \* per socket: its request carries a connect.sid cookie
    userId,            \* per connection: the closure variable userId
    isAuthenticated,   \* per connection: the closure variable isAuthenticated
    \* ---- POST /api/bookmarks ----
    bookmarks,         \* rows of the bookmarks table
    nextBookmark,      \* stands for gen_random_uuid()
    body,              \* per request: {...req.body, userId}
    reply,             \* per request: the status and bookmark it was sent
    bpc                \* per request: position in the handler

dedupVars == <<articles, openaiKey, afterTitleDedup, embeddingResults,
               semanticDeduped, semIndex, dedupResult, dpc>>
searchVars == <<table, nextId, deduplicated, persistIndex, persistedArticles,
                createRet, persistErrors, sorted, spc>>
monitorVars ==
    <<clock, firedAt, lastCheckTimes, scans, finished, notifications,
      counted>>
fetchVars ==
    <<keyword, source, env, allArticles, contribution, pendingFetch, fpc>>
trendVars == <<today, queried, storeFailed, trendResult, tpc>>
jobVars ==
    <<wallHour, hoursRun, cronRan, currentHour, remaining, mailed, jpc>>
coreVars == <<dedupVars, searchVars, monitorVars, fetchVars, trendVars>>
poolVars == <<toEmbed, queued, active, resolved, epc>>
socketVars ==
    <<connections, readyState, hasSession, userId, isAuthenticated>>
bookmarkVars == <<bookmarks, nextBookmark, body, reply, bpc>>
sideVars == <<jobVars, poolVars, socketVars, bookmarkVars>>
vars == <<coreVars, sideVars>>

(***************************************************************************)
(* Bounds of the model.                                                    *)
(***************************************************************************)
MaxArticles == 3
NumCalls == 2
MaxFetch == 2
MaxClock == 5
MaxItems == 1
MaxRows == 1
MaxHours == 2
MaxSurvivors == 11
MaxSockets == 2
MaxPosts == 2

Min(S) == CHOOSE x \in S : \A y \in S : x <= y
Max(S) == CHOOSE x \in S : \A y \in S : x >= y
Range(s) == {s[i] : i \in 1..Len(s)}
Repeat(c, n) == [i \in 1..n |-> c]

(***************************************************************************)
(* Titles.  A title is a sequence of UTF-16 code units, each written as a  *)
(* one-unit string; "GA" stands for the Hangul syllable U+AC00.            *)
(***************************************************************************)
TitlePrefixLen == 50

toLowerCase(c) ==
    CASE c = "A" -> "a"
      [] c = "B" -> "b"
      [] OTHER -> c

\* [^\w\s가-힣] : what the replace() removes is everything else
IsWordChar(c) == c \in {"a", "b", "x", "y", "z", "A", "B", "7", "_"}
IsSpace(c) == c = " "
IsHangul(c) == c = "GA"
SurvivesReplace(c) == IsWordChar(c) \/ IsSpace(c) \/ IsHangul(c)

RECURSIVE TrimLeft(_)
TrimLeft(s) ==
    IF s # <<>> /\ IsSpace(Head(s)) THEN TrimLeft(Tail(s)) ELSE s

RECURSIVE TrimRight(_)
TrimRight(s) ==
    IF s # <<>> /\ IsSpace(s[Len(s)])
    THEN TrimRight(SubSeq(s, 1, Len(s) - 1))
    ELSE s

trim(s) == TrimRight(TrimLeft(s))

slice(s, n) == IF Len(s) <= n THEN s ELSE SubSeq(s, 1, n)

\* title.toLowerCase().replace(/[^\w\s가-힣]/g, '').trim().slice(0, 50)
NormalizeTitle(title) ==
    slice(trim(SelectSeq([i \in 1..Len(title) |-> toLowerCase(title[i])],
                         SurvivesReplace)),
          TitlePrefixLen)

(***************************************************************************)
(* Phase 1 of deduplicateArticles.  The Map is a sequence of               *)
(* [key, value] entries in insertion order; set() on a present key keeps   *)
(* the entry's place.                                                      *)
(***************************************************************************)
MapHas(m, key) == \E i \in 1..Len(m) : m[i].key = key
MapIndex(m, key) == CHOOSE i \in 1..Len(m) : m[i].key = key
MapGet(m, key) == m[MapIndex(m, key)].value
MapSet(m, key, value) ==
    IF MapHas(m, key)
    THEN [m EXCEPT ![MapIndex(m, key)] = [key |-> key, value |-> value]]
    ELSE Append(m, [key |-> key, value |-> value])

ReversedValues(m) == [i \in 1..Len(m) |-> m[Len(m) + 1 - i].value]
\* Array.from(titleDeduped.values())
MapValues(m) == [i \in 1..Len(m) |-> m[i].value]

TitleNewerOrSame(article, existing) == article.publishedAt >= existing.publishedAt
\* new Date(article.publishedAt) > new Date(existing.publishedAt)
TitleNewer(article, existing) == article.publishedAt > existing.publishedAt

TitleDedupStep(m, article) ==
    LET normalizedTitle == NormalizeTitle(article.title) IN
    IF ~MapHas(m, normalizedTitle)
    THEN MapSet(m, normalizedTitle, article)
    ELSE IF TitleNewer(article, MapGet(m, normalizedTitle))
         THEN MapSet(m, normalizedTitle, article)
         ELSE m

RECURSIVE TitleDedupMap(_)
TitleDedupMap(as) ==
    IF as = <<>> THEN <<>>
    ELSE TitleDedupStep(TitleDedupMap(SubSeq(as, 1, Len(as) - 1)), as[Len(as)])

TitleDedup(as) == MapValues(TitleDedupMap(as))

(***************************************************************************)
(* embeddingService.  Embeddings are integer vectors; a failed request     *)
(* (generateEmbedding returned null) is the empty vector, as               *)
(* `embedding || []` makes it.                                             *)
(***************************************************************************)
Dot(a, b) ==
    LET RECURSIVE Sum(_)
        Sum(i) == IF i = 0 THEN 0 ELSE a[i] * b[i] + Sum(i - 1)
    IN Sum(Len(a))

\* cosineSimilarity throws when the lengths differ
CosineThrows(vecA, vecB) == Len(vecA) # Len(vecB)

\* cosineSimilarity(e1, e2) >= 0.85, on integer vectors:
\*   magnitude = 0 gives similarity 0; otherwise dot / (|a| |b|) >= 17/20
areArticlesSimilar(embedding1, embedding2) ==
    LET dot == Dot(embedding1, embedding2)
        normA == Dot(embedding1, embedding1)
        normB == Dot(embedding2, embedding2)
    IN /\ normA * normB # 0
       /\ dot >= 0
       /\ 400 * dot * dot >= 289 * normA * normB

(***************************************************************************)
(* Phase 2 of deduplicateArticles: one iteration of                        *)
(* `for (const item of embeddingResults)`.                                 *)
(***************************************************************************)
ComparedAlways(item, kept) == TRUE
\* item.embedding.length > 0 && kept.embedding.length > 0
Compared(item, kept) == item.embedding # <<>> /\ kept.embedding # <<>>

SemanticNewerOrSame(item, kept) ==
    item.article.publishedAt >= kept.article.publishedAt
\* new Date(item.article.publishedAt) > new Date(kept.article.publishedAt)
SemanticNewer(item, kept) ==
    item.article.publishedAt > kept.article.publishedAt

\* positions of semanticDeduped whose comparison with item is made and true
SimilarKept(kept, item) ==
    {k \in 1..Len(kept) :
        /\ Compared(item, kept[k])
        /\ ~CosineThrows(item.embedding, kept[k].embedding)
        /\ areArticlesSimilar(item.embedding, kept[k].embedding)}

\* positions whose comparison is made and throws
ThrowingKept(kept, item) ==
    {k \in 1..Len(kept) :
        /\ Compared(item, kept[k])
        /\ CosineThrows(item.embedding, kept[k].embedding)}

\* the inner loop stops at the first similar kept entry (break)
FirstSimilar(kept, item) == Min(SimilarKept(kept, item))

SemanticThrows(kept, item) ==
    \E k \in ThrowingKept(kept, item) :
        SimilarKept(kept, item) = {} \/ k < FirstSimilar(kept, item)

SemanticStep(kept, item) ==
    IF SimilarKept(kept, item) = {}
    THEN Append(kept, item)
    ELSE LET k == FirstSimilar(kept, item) IN
         IF SemanticNewer(item, kept[k])
         THEN [kept EXCEPT ![k] = item]
         ELSE kept

\* ({ ...item.article, embedding: item.embedding })
WithEmbedding(item) ==
    [url |-> item.article.url, title |-> item.article.title,
     publishedAt |-> item.article.publishedAt,
     category |-> item.article.category, embedding |-> item.embedding]

WithoutEmbedding(a) ==
    [url |-> a.url, title |-> a.title, publishedAt |-> a.publishedAt,
     category |-> a.category]

KeyAlwaysConfigured(key) == TRUE
\* !process.env.OPENAI_API_KEY
KeyConfigured(key) == key

EmbedWholeInput(input, survivors) == input
\* afterTitleDedup.map((article) => limit(...)): what phase 2 embeds
EmbeddingTargets(input, survivors) == survivors

\* embeddingResults.filter(r => r.embedding.length > 0).length
SuccessfulEmbeddings(results) ==
    Cardinality({i \in 1..Len(results) : results[i].embedding # <<>>})

(***************************************************************************)
(* One run of deduplicateArticles.                                         *)
(***************************************************************************)
Times == {1, 2}

\* "Axxx...xy": 51 units
LongTitleY == <<"A">> \o Repeat("x", TitlePrefixLen - 1) \o <<"y">>
\* " a!xxx...xz": the bucket of LongTitleY once lowercased, stripped of "!",
\* trimmed and cut to 50 units
LongTitleZ == <<" ", "a", "!">> \o Repeat("x", TitlePrefixLen - 1) \o <<"z">>

Titles == { LongTitleY, LongTitleZ, <<"A", "b">>, <<"GA", " ", "7">> }

Embeddings == { <<>>, <<1, 0>>, <<2, 1>>, <<1, 1>> }

\* the i-th article of an input carries url i: the urls of one input differ
InputOf(f) ==
    [i \in DOMAIN f |-> [url |-> i, title |-> f[i][1], publishedAt |-> f[i][2],
                         category |-> "general"]]

DedupInputs ==
    UNION { {InputOf(f) : f \in [1..n -> Titles \X Times]} : n \in 0..MaxArticles }

DedupInit ==
    /\ articles \in DedupInputs
    /\ openaiKey \in BOOLEAN
    /\ afterTitleDedup = <<>>
    /\ embeddingResults = <<>>
    /\ semanticDeduped = <<>>
    /\ semIndex = 0
    /\ dedupResult = <<>>
    /\ dpc = "phase1"

\* lines 177-207: phase 1, then the fast-fail on the missing key
Phase1 ==
    /\ dpc = "phase1"
    /\ afterTitleDedup' = TitleDedup(articles)
    /\ IF ~KeyConfigured(openaiKey)
       THEN /\ dedupResult' = afterTitleDedup'
            /\ dpc' = "done"
       ELSE /\ dedupResult' = dedupResult
            /\ dpc' = "embed"
    /\ UNCHANGED <<articles, openaiKey, embeddingResults, semanticDeduped,
                   semIndex>>
    /\ UNCHANGED <<searchVars, monitorVars, fetchVars, trendVars, sideVars>>

\* lines 209-229: every embedding request has settled (each to a vector or
\* to []), then the check that any succeeded
Embed ==
    /\ dpc = "embed"
    /\ LET targets == EmbeddingTargets(articles, afterTitleDedup) IN
       \E e \in [1..Len(targets) -> Embeddings] :
          /\ embeddingResults' =
                [i \in 1..Len(targets) |->
                    [article |-> targets[i], embedding |-> e[i]]]
          /\ IF SuccessfulEmbeddings(embeddingResults') = 0
             THEN /\ dedupResult' = afterTitleDedup
                  /\ dpc' = "done"
             ELSE /\ dedupResult' = dedupResult
                  /\ dpc' = "semantic"
    /\ UNCHANGED <<articles, openaiKey, afterTitleDedup, semanticDeduped,
                   semIndex>>
    /\ UNCHANGED <<searchVars, monitorVars, fetchVars, trendVars, sideVars>>

\* lines 234-256: one iteration of the outer loop
SemanticIteration ==
    /\ dpc = "semantic"
    /\ semIndex < Len(embeddingResults)
    /\ LET item == embeddingResults[semIndex + 1] IN
       IF SemanticThrows(semanticDeduped, item)
       THEN /\ dpc' = "raised"
            /\ UNCHANGED <<semanticDeduped, semIndex>>
       ELSE /\ semanticDeduped' = SemanticStep(semanticDeduped, item)
            /\ semIndex' = semIndex + 1
            /\ dpc' = dpc
    /\ UNCHANGED <<articles, openaiKey, afterTitleDedup, embeddingResults,
                   dedupResult>>
    /\ UNCHANGED <<searchVars, monitorVars, fetchVars, trendVars, sideVars>>

\* line 261: the return of the semantic path
SemanticReturn ==
    /\ dpc = "semantic"
    /\ semIndex = Len(embeddingResults)
    /\ dedupResult' =
          [i \in 1..Len(semanticDeduped) |-> WithEmbedding(semanticDeduped[i])]
    /\ dpc' = "done"
    /\ UNCHANGED <<articles, openaiKey, afterTitleDedup, embeddingResults,
                   semanticDeduped, semIndex>>
    /\ UNCHANGED <<searchVars, monitorVars, fetchVars, trendVars, sideVars>>

DedupNext == Phase1 \/ Embed \/ SemanticIteration \/ SemanticReturn

(***************************************************************************)
(* deduplicateArticles as a function of its input, the key and the         *)
(* embeddings the requests settle to (what searchNews awaits).             *)
(***************************************************************************)
EmbeddingResultsOf(targets, e) ==
    [i \in 1..Len(targets) |-> [article |-> targets[i], embedding |-> e[i]]]

RECURSIVE SemanticFold(_)
SemanticFold(results) ==
    IF results = <<>> THEN <<>>
    ELSE SemanticStep(SemanticFold(SubSeq(results, 1, Len(results) - 1)),
                      results[Len(results)])

FoldThrows(results) ==
    \E i \in 1..Len(results) :
        SemanticThrows(SemanticFold(SubSeq(results, 1, i - 1)), results[i])

DedupRaises(input, key, e) ==
    /\ KeyConfigured(key)
    /\ LET results ==
              EmbeddingResultsOf(EmbeddingTargets(input, TitleDedup(input)), e)
       IN SuccessfulEmbeddings(results) # 0 /\ FoldThrows(results)

DeduplicateArticles(input, key, e) ==
    LET survivors == TitleDedup(input)
        results == EmbeddingResultsOf(EmbeddingTargets(input, survivors), e)
        kept == SemanticFold(results)
    IN IF ~KeyConfigured(key) THEN survivors
       ELSE IF SuccessfulEmbeddings(results) = 0 THEN survivors
       ELSE [i \in 1..Len(kept) |-> WithEmbedding(kept[i])]

(***************************************************************************)
(* The articles table and DatabaseStorage.                                 *)
(***************************************************************************)
UniqueNotEnforced(rows, url) == FALSE
\* url: text("url").notNull().unique()
UrlTaken(rows, url) == \E r \in rows : r.url = url

\* db.insert(articles).values(normalizedArticle).returning(): the columns of
\* the table are taken from the value, the id is generated
RowOf(article, id) ==
    [id |-> id, url |-> article.url, title |-> article.title,
     publishedAt |-> article.publishedAt, category |-> article.category]

\* getArticleByUrl: const [article] = select ... where url = $1
\* (an Article | undefined is the set of at most one row)
getArticleByUrl(rows, url) ==
    LET matching == {r \in rows : r.url = url} IN
    IF matching = {} THEN {} ELSE {CHOOSE r \in matching : TRUE}

NeverUniqueViolation(code) == FALSE
\* error?.code === '23505'
IsUniqueViolation(code) == code = "23505"

(***************************************************************************)
(* persistedArticles.sort((a, b) => b.publishedAt - a.publishedAt)         *)
(***************************************************************************)
CompareAscending(a, b) == a.publishedAt - b.publishedAt
CompareFn(a, b) == b.publishedAt - a.publishedAt

\* a stable sort: x goes before the first entry the comparator puts after it
InsertSorted(s, x) ==
    LET after == {j \in 1..Len(s) : CompareFn(s[j], x) > 0}
        at == IF after = {} THEN Len(s) + 1 ELSE Min(after)
    IN SubSeq(s, 1, at - 1) \o <<x>> \o SubSeq(s, at, Len(s))

RECURSIVE SortArticles(_)
SortArticles(s) ==
    IF s = <<>> THEN <<>>
    ELSE InsertSorted(SortArticles(SubSeq(s, 1, Len(s) - 1)), s[Len(s)])

(***************************************************************************)
(* searchNews calls.                                                       *)
(***************************************************************************)
Calls == 1..NumCalls
\* one url fetched with two titles and dates, and a second url in the
\* title bucket of the first one's later version
FetchedArticles ==
    { [url |-> "u1", title |-> <<"A", "b">>, publishedAt |-> 1,
       category |-> "general"],
      [url |-> "u1", title |-> <<"GA", " ", "7">>, publishedAt |-> 2,
       category |-> "general"],
      [url |-> "u2", title |-> <<"GA", " ", "7">>, publishedAt |-> 2,
       category |-> "technology"] }

\* what the adapters of one call return, concatenated
FetchLists == UNION { [1..n -> FetchedArticles] : n \in 0..MaxFetch }

\* how the last storage.createArticle of a call ended
NoCall == [kind |-> "none", value |-> {}, code |-> ""]
Returned(persisted) == [kind |-> "returned", value |-> persisted, code |-> ""]
Threw(code) == [kind |-> "threw", value |-> {}, code |-> code]

SearchInit ==
    /\ table = {}
    /\ nextId = 1
    /\ deduplicated = [p \in Calls |-> <<>>]
    /\ persistIndex = [p \in Calls |-> 0]
    /\ persistedArticles = [p \in Calls |-> <<>>]
    /\ createRet = [p \in Calls |-> NoCall]
    /\ persistErrors = [p \in Calls |-> {}]
    /\ sorted = [p \in Calls |-> <<>>]
    /\ spc = [p \in Calls |-> "fetch"]

\* what the awaited deduplicateArticles of a call can resolve to, over the
\* adapters' answers, the key and the embeddings: the list handed to the
\* persist loop (createArticle reads the table's columns only), or a raise
DedupOutcomes ==
    { IF DedupRaises(fetched, key, e)
      THEN [raised |-> TRUE, list |-> <<>>]
      ELSE [raised |-> FALSE,
            list |-> LET d == DeduplicateArticles(fetched, key, e)
                     IN [i \in 1..Len(d) |-> WithoutEmbedding(d[i])]] :
      <<fetched, key, e>> \in
          UNION { UNION { {<<l, k, f>> :
                             f \in [1..Len(EmbeddingTargets(l, TitleDedup(l)))
                                       -> Embeddings]} :
                          k \in BOOLEAN } :
                  l \in FetchLists } }

\* lines 278-304: the adapters have answered and deduplicateArticles has
\* settled; the table is not touched before the persist loop
FetchAndDedup(p) ==
    /\ spc[p] = "fetch"
    /\ \E outcome \in DedupOutcomes :
          IF outcome.raised
          THEN /\ spc' = [spc EXCEPT ![p] = "raised"]
               /\ UNCHANGED deduplicated
          ELSE /\ deduplicated' = [deduplicated EXCEPT ![p] = outcome.list]
               /\ spc' = [spc EXCEPT ![p] = "persist"]
    /\ UNCHANGED <<table, nextId, persistIndex, persistedArticles, createRet,
                   persistErrors, sorted>>
    /\ UNCHANGED <<dedupVars, monitorVars, fetchVars, trendVars, sideVars>>

CurrentArticle(p) == deduplicated[p][persistIndex[p] + 1]

AbortSearch(p, code) ==
    /\ createRet' = [createRet EXCEPT ![p] = Threw(code)]
    /\ persistErrors' = [persistErrors EXCEPT ![p] = @ \cup {persistIndex[p] + 1}]
    /\ spc' = [spc EXCEPT ![p] = "raised"]
    /\ UNCHANGED <<persistIndex, persistedArticles>>
\* the catch of searchNews (line 316): the error is logged, the article is
\* left out and the loop goes on
SkipArticle(p, code) ==
    /\ createRet' = [createRet EXCEPT ![p] = Threw(code)]
    /\ persistErrors' = [persistErrors EXCEPT ![p] = @ \cup {persistIndex[p] + 1}]
    /\ persistIndex' = [persistIndex EXCEPT ![p] = @ + 1]
    /\ spc' = [spc EXCEPT ![p] = "persist"]
    /\ UNCHANGED persistedArticles

\* if (persisted) persistedArticles.push(persisted)
Collect(p, persisted) ==
    /\ createRet' = [createRet EXCEPT ![p] = Returned(persisted)]
    /\ persistIndex' = [persistIndex EXCEPT ![p] = @ + 1]
    /\ spc' = [spc EXCEPT ![p] = "persist"]
    /\ UNCHANGED persistErrors
    /\ persistedArticles' =
          IF persisted = {} THEN persistedArticles
          ELSE [persistedArticles EXCEPT
                   ![p] = Append(@, CHOOSE r \in persisted : TRUE)]

\* createArticle, lines 213-224: the insert succeeds
InsertCreated(p) ==
    /\ spc[p] = "persist"
    /\ persistIndex[p] < Len(deduplicated[p])
    /\ ~UrlTaken(table, CurrentArticle(p).url)
    /\ LET created == RowOf(CurrentArticle(p), nextId) IN
       /\ table' = table \cup {created}
       /\ nextId' = nextId + 1
       /\ Collect(p, {created})
    /\ UNCHANGED <<deduplicated, sorted>>
    /\ UNCHANGED <<dedupVars, monitorVars, fetchVars, trendVars, sideVars>>

\* createArticle, lines 225-231: the insert is refused by the unique
\* constraint; the catch either goes on to getArticleByUrl or rethrows
InsertConflict(p) ==
    /\ spc[p] = "persist"
    /\ persistIndex[p] < Len(deduplicated[p])
    /\ UrlTaken(table, CurrentArticle(p).url)
    /\ IF IsUniqueViolation("23505")
       THEN /\ spc' = [spc EXCEPT ![p] = "refetch"]
            /\ createRet' = [createRet EXCEPT ![p] = NoCall]
            /\ UNCHANGED <<persistIndex, persistedArticles, persistErrors>>
       ELSE SkipArticle(p, "23505")
    /\ UNCHANGED <<table, nextId, deduplicated, sorted>>
    /\ UNCHANGED <<dedupVars, monitorVars, fetchVars, trendVars, sideVars>>

\* createArticle, line 228: getArticleByUrl answers
Refetch(p) ==
    /\ spc[p] = "refetch"
    /\ Collect(p, getArticleByUrl(table, CurrentArticle(p).url))
    /\ UNCHANGED <<table, nextId, deduplicated, sorted>>
    /\ UNCHANGED <<dedupVars, monitorVars, fetchVars, trendVars, sideVars>>

\* the insert or the select fails for another reason (the store cannot be
\* reached): createArticle rethrows, searchNews logs and goes on
StoreFails(p) ==
    /\ \/ spc[p] = "persist" /\ persistIndex[p] < Len(deduplicated[p])
       \/ spc[p] = "refetch"
    /\ SkipArticle(p, "other")
    /\ UNCHANGED <<table, nextId, deduplicated, sorted>>
    /\ UNCHANGED <<dedupVars, monitorVars, fetchVars, trendVars, sideVars>>

\* lines 321-327
ReturnSorted(p) ==
    /\ spc[p] = "persist"
    /\ persistIndex[p] = Len(deduplicated[p])
    /\ sorted' = [sorted EXCEPT ![p] = SortArticles(persistedArticles[p])]
    /\ spc' = [spc EXCEPT ![p] = "done"]
    /\ UNCHANGED <<table, nextId, deduplicated, persistIndex,
                   persistedArticles, createRet, persistErrors>>
    /\ UNCHANGED <<dedupVars, monitorVars, fetchVars, trendVars, sideVars>>

SearchNext ==
    \E p \in Calls :
        \/ FetchAndDedup(p)
        \/ InsertCreated(p)
        \/ InsertConflict(p)
        \/ Refetch(p)
        \/ StoreFails(p)
        \/ ReturnSorted(p)

(***************************************************************************)
(* The breaking-news monitor.  Time is counted in units of 30 s.           *)
(***************************************************************************)
InitialDelay == 1       \* setTimeout(..., 30000)
Interval == 4           \* setInterval(..., 2 * 60 * 1000)
DefaultLookback == 10   \* now.getTime() - 5 * 60 * 1000

Subscriptions == {"s1", "s2"}
KeywordsOf(sub) == IF sub = "s1" THEN <<"k1">> ELSE <<"k1", "k2">>
UserOf(sub) == IF sub = "s1" THEN "alice" ELSE "bob"

\* what one searchNews call of a scan resolves to: a list of rows
ScanResults ==
    { <<>>,
      <<[url |-> "u1", publishedAt |-> 1]>>,
      <<[url |-> "u2", publishedAt |-> 3]>>,
      <<[url |-> "u2", publishedAt |-> 3],
        [url |-> "u1", publishedAt |-> 1]>> }

MapKeepNewest(m, key, date) ==
    [k \in DOMAIN m \cup {key} |->
        IF k = key /\ (k \notin DOMAIN m \/ m[k] <= date) THEN date ELSE m[k]]
\* lastCheckTimes.set(subscriptionId, now)
MapSetDate(m, key, date) ==
    [k \in DOMAIN m \cup {key} |-> IF k = key THEN date ELSE m[k]]

MonitorInit ==
    /\ clock = 0
    /\ firedAt = -1
    /\ lastCheckTimes = [s \in {} |-> 0]
    /\ scans = {}
    /\ finished = {}
    /\ notifications = <<>>
    /\ counted = [s \in Subscriptions |-> {}]

TimerDue(c) == c = InitialDelay \/ (c > 0 /\ c % Interval = 0)

\* time passes; a timer that is due has run its callback first
AdvanceClock ==
    /\ clock < MaxClock
    /\ TimerDue(clock) => firedAt = clock
    /\ clock' = clock + 1
    /\ UNCHANGED <<firedAt, lastCheckTimes, scans, finished, notifications,
                   counted>>
    /\ UNCHANGED <<dedupVars, searchVars, fetchVars, trendVars, sideVars>>

\* lastCheckTimes.get(subscriptionId) || new Date(now.getTime() - 5 * 60 * 1000)
LastCheckAt(sub, now) ==
    IF sub \in DOMAIN lastCheckTimes THEN lastCheckTimes[sub]
    ELSE now - DefaultLookback

\* monitorBreakingNews, lines 68-86, with each scan run up to its first
\* await (lines 15-22): now and lastCheck are read when the scan starts
TimerFires ==
    /\ TimerDue(clock)
    /\ firedAt # clock
    /\ firedAt' = clock
    /\ scans' = scans \cup
          { [sub |-> s, now |-> clock, lastCheck |-> LastCheckAt(s, clock),
             keyword |-> 1, articles |-> <<>>, errors |-> 0] :
            s \in Subscriptions }
    /\ UNCHANGED <<clock, lastCheckTimes, finished, notifications, counted>>
    /\ UNCHANGED <<dedupVars, searchVars, fetchVars, trendVars, sideVars>>

\* monitorBreakingNews, lines 69-73 and 89-91: getAllActiveSubscriptions
\* rejects, the catch logs it and the tick ends without a scan
TickStoreFails ==
    /\ TimerDue(clock)
    /\ firedAt # clock
    /\ firedAt' = clock
    /\ UNCHANGED <<clock, lastCheckTimes, scans, finished, notifications,
                   counted>>
    /\ UNCHANGED <<dedupVars, searchVars, fetchVars, trendVars, sideVars>>

\* articles.filter(article => new Date(article.publishedAt) > lastCheck)
IsNewOrSame(article, lastCheck) == article.publishedAt >= lastCheck
IsNew(article, lastCheck) == article.publishedAt > lastCheck
NewArticles(found, lastCheck) ==
    LET RECURSIVE Filter(_)
        Filter(i) ==
            IF i = 0 THEN <<>>
            ELSE IF IsNew(found[i], lastCheck)
                 THEN Append(Filter(i - 1), found[i])
                 ELSE Filter(i - 1)
    IN Filter(Len(found))

PreviewSize == 3         \* newArticles.slice(0, 3)
\* sendNotificationToUser(userId, {message, data: {articles, keywords}})
Notification(scan, newArticles) ==
    [userId |-> UserOf(scan.sub),
     count |-> Len(newArticles),
     articles |-> slice(newArticles, PreviewSize),
     keywords |-> KeywordsOf(scan.sub)]

AlwaysNotify(newArticles) == TRUE
\* if (newArticles.length > 0)
ShouldNotify(newArticles) == Len(newArticles) > 0

\* how a call of sendNotificationToUser ends: a message went to an open
\* connection of the user, the user has none (false), or ws.send threw
SinkOutcomes == {"sent", "noConnection", "threw"}

AbortTick(inFlight, scan) == {}
\* the promises of checkPromises settle one by one; how one of them ends
\* leaves the others in flight
OthersInFlight(inFlight, scan) == inFlight \ {scan}

\* lines 32-60 of one scan: the filter, the watermark, the notification and
\* the return (or the outer catch when the sink threw)
FinishScan(scan, found, errors, sink) ==
    LET newArticles == NewArticles(found, scan.lastCheck) IN
    /\ scans' = OthersInFlight(scans, scan)
    /\ lastCheckTimes' = MapSetDate(lastCheckTimes, scan.sub, scan.now)
    /\ notifications' =
          IF ShouldNotify(newArticles)
          THEN <<Notification(scan, newArticles)>>
          ELSE <<>>
    /\ counted' =
          [counted EXCEPT ![scan.sub] =
              @ \cup {newArticles[i].url : i \in 1..Len(newArticles)}]
    /\ finished' =
          {[scan EXCEPT !.articles = found,
                        !.errors = IF ShouldNotify(newArticles)
                                      /\ sink = "threw"
                                   THEN errors + 1 ELSE errors]}

\* one awaited searchNews of a scan settles (lines 22-29); after the last
\* keyword the scan runs to its end without another await (lines 32-57)
ScanStep(scan, results, errors) ==
    LET found == scan.articles \o results IN
    IF scan.keyword < Len(KeywordsOf(scan.sub))
    THEN /\ scans' = OthersInFlight(scans, scan) \cup
                {[scan EXCEPT !.keyword = @ + 1, !.articles = found,
                              !.errors = errors]}
         /\ UNCHANGED <<lastCheckTimes, finished, notifications, counted>>
    ELSE \E sink \in SinkOutcomes : FinishScan(scan, found, errors, sink)

SearchResolves ==
    /\ \E scan \in scans : \E results \in ScanResults :
          ScanStep(scan, results, scan.errors)
    /\ UNCHANGED <<clock, firedAt>>
    /\ UNCHANGED <<dedupVars, searchVars, fetchVars, trendVars, sideVars>>

\* searchNews rejects: the inner catch logs and the loop goes on
SearchRejects ==
    /\ \E scan \in scans : ScanStep(scan, <<>>, scan.errors + 1)
    /\ UNCHANGED <<clock, firedAt>>
    /\ UNCHANGED <<dedupVars, searchVars, fetchVars, trendVars, sideVars>>

MonitorNext ==
    \/ AdvanceClock
    \/ TimerFires
    \/ TickStoreFails
    \/ SearchResolves
    \/ SearchRejects

(***************************************************************************)
(* The source adapters and the fetch part of searchNews (lines 16-162 and  *)
(* 278-300).  Time is counted in units of 15 minutes.                      *)
(***************************************************************************)
\* params.source; "" stands for an absent one
Sources == {"", "all", "newsapi", "naver", "bing", "guardian"}
Envs == [naverId : BOOLEAN, naverSecret : BOOLEAN, newsApiKey : BOOLEAN]

\* how axios.get ends: a response, no connection, the 10 s timeout, or a
\* rejected status
Transports == {"ok", "network", "timeout", "401", "429", "500"}
\* the body's list (items / articles): a list, absent, or something map
\* fails on (not an array, a null entry, no body at all)
Shapes == {"list", "missing", "malformed"}
RawItems ==
    { [title |-> <<"<", "b", ">", "A", "<", "/", "b", ">", "b">>,
       link |-> "n1", pubDate |-> 1],
      [title |-> <<>>, link |-> "n2", pubDate |-> 2] }
ItemLists == UNION { [1..n -> RawItems] : n \in 0..MaxItems }
Responses ==
    [transport : Transports, status : {"ok", "error"}, shape : Shapes,
     items : ItemLists]

\* html.replace(/<\/?[^>]+(>|$)/g, ''): a "<" followed by at least one
\* character other than ">" is removed up to the next ">" or the end
RECURSIVE stripHtml(_)
stripHtml(html) ==
    IF html = <<>> THEN <<>>
    ELSE IF html[1] = "<" /\ Len(html) > 1 /\ html[2] # ">"
         THEN LET closing == {i \in 3..Len(html) : html[i] = ">"} IN
              IF closing = {} THEN <<>>
              ELSE stripHtml(SubSeq(html, Min(closing) + 1, Len(html)))
         ELSE <<html[1]>> \o stripHtml(Tail(html))

\* item.title || 'Untitled'
Untitled == <<"U", "n", "t", "i", "t", "l", "e", "d">>
OrUntitled(title) == IF title = <<>> THEN Untitled ELSE title

NaverArticle(item) ==
    [url |-> item.link, title |-> stripHtml(OrUntitled(item.title)),
     publishedAt |-> item.pubDate, category |-> "general"]
NewsApiArticle(item) ==
    [url |-> item.link, title |-> OrUntitled(item.title),
     publishedAt |-> item.pubDate, category |-> "general"]

\* how an adapter's promise settles
Resolved(list) == [threw |-> FALSE, list |-> list]
Rejected == [threw |-> TRUE, list |-> <<>>]

Rethrow(outcome) == outcome
\* catch (error: any) { console.error(...); return []; }
CatchReturnsEmpty(outcome) ==
    IF outcome.threw THEN Resolved(<<>>) ELSE outcome

searchNaverNews(e, response) ==
    IF ~e.naverId \/ ~e.naverSecret THEN Resolved(<<>>)
    ELSE CatchReturnsEmpty(
             IF response.transport # "ok" THEN Rejected
             ELSE IF response.shape = "missing" THEN Resolved(<<>>)
             ELSE IF response.shape = "malformed" THEN Rejected
             ELSE Resolved([i \in 1..Len(response.items) |->
                               NaverArticle(response.items[i])]))

searchNewsAPI(e, response) ==
    IF ~e.newsApiKey THEN Resolved(<<>>)
    ELSE CatchReturnsEmpty(
             IF response.transport # "ok" THEN Rejected
             ELSE IF response.status # "ok" THEN Resolved(<<>>)
             ELSE IF response.shape # "list" THEN Rejected
             ELSE Resolved([i \in 1..Len(response.items) |->
                               NewsApiArticle(response.items[i])]))

\* params.keyword: searchNews takes any string, the empty one included
Keywords == {"", "k"}

\* the mock: three articles made from the keyword and Date.now()
BingMockSize == 3
BingHeadlines == <<"B", "M", "E">>
\* the urls end in now + i
BingUrls == <<"b1", "b2", "b3">>
BingCategories == <<"technology", "business", "general">>
searchBingNews(word, now) ==
    Resolved([n \in 1..BingMockSize |->
                 [url |-> BingUrls[n],
                  title |-> <<word, ":", " ", BingHeadlines[n]>>,
                  publishedAt |-> now - (n + 2),
                  category |-> BingCategories[n]]])

\* source === name || source === "all" || !source
Wanted(src, name) == src = name \/ src = "all" \/ src = ""

\* the adapter had no credential, no usable answer or no usable body
AdapterFailed(name, e, response) ==
    \/ name = "naver" /\ (~e.naverId \/ ~e.naverSecret)
    \/ name = "newsapi" /\ ~e.newsApiKey
    \/ response.transport # "ok"
    \/ response.shape # "list"
    \/ name = "newsapi" /\ response.status # "ok"

NotCalled == [called |-> FALSE, failed |-> FALSE, list |-> <<>>]
FetchNow == 10

FetchIdle ==
    /\ keyword = ""
    /\ source = ""
    /\ env = [naverId |-> FALSE, naverSecret |-> FALSE, newsApiKey |-> FALSE]
    /\ allArticles = <<>>
    /\ contribution = [a \in {"newsapi", "naver", "bing"} |-> NotCalled]
    /\ pendingFetch = {}
    /\ fpc = "idle"

FetchInit ==
    /\ keyword \in Keywords
    /\ source \in Sources
    /\ env \in Envs
    /\ allArticles = <<>>
    /\ contribution = [a \in {"newsapi", "naver", "bing"} |-> NotCalled]
    /\ pendingFetch = {}
    /\ fpc = "newsapi"

\* searchNews reaches an adapter it selects and calls it: the adapter's
\* request goes out and searchNews waits at the await
CallAdapter ==
    /\ fpc \in {"newsapi", "naver", "bing"}
    /\ Wanted(source, fpc)
    /\ fpc \notin pendingFetch
    /\ pendingFetch' = pendingFetch \cup {fpc}
    /\ UNCHANGED <<keyword, source, env, allArticles, contribution, fpc>>
    /\ UNCHANGED <<dedupVars, searchVars, monitorVars, trendVars, sideVars>>

\* const articles = await adapter(...); allArticles.push(...articles)
AwaitAdapter(name, outcome, failed, next) ==
    /\ name \in pendingFetch
    /\ pendingFetch' = pendingFetch \ {name}
    /\ contribution' = [contribution EXCEPT
          ![name] = [called |-> TRUE, failed |-> failed,
                     list |-> outcome.list]]
    /\ IF outcome.threw
       THEN /\ fpc' = "raised"
            /\ UNCHANGED allArticles
       ELSE /\ fpc' = next
            /\ allArticles' = allArticles \o outcome.list

SkipAdapter(next) ==
    /\ fpc' = next
    /\ UNCHANGED <<allArticles, contribution, pendingFetch>>

\* lines 282-286
FetchNewsAPI ==
    /\ fpc = "newsapi"
    /\ IF Wanted(source, "newsapi")
       THEN \E response \in Responses :
                AwaitAdapter("newsapi", searchNewsAPI(env, response),
                             AdapterFailed("newsapi", env, response), "naver")
       ELSE SkipAdapter("naver")
    /\ UNCHANGED <<keyword, source, env>>
    /\ UNCHANGED <<dedupVars, searchVars, monitorVars, trendVars, sideVars>>

\* lines 289-293
FetchNaver ==
    /\ fpc = "naver"
    /\ IF Wanted(source, "naver")
       THEN \E response \in Responses :
                AwaitAdapter("naver", searchNaverNews(env, response),
                             AdapterFailed("naver", env, response), "bing")
       ELSE SkipAdapter("bing")
    /\ UNCHANGED <<keyword, source, env>>
    /\ UNCHANGED <<dedupVars, searchVars, monitorVars, trendVars, sideVars>>

\* lines 296-300
FetchBing ==
    /\ fpc = "bing"
    /\ IF Wanted(source, "bing")
       THEN AwaitAdapter("bing", searchBingNews(keyword, FetchNow),
                         FALSE, "dedup")
       ELSE SkipAdapter("dedup")
    /\ UNCHANGED <<keyword, source, env>>
    /\ UNCHANGED <<dedupVars, searchVars, monitorVars, trendVars, sideVars>>

FetchNext == CallAdapter \/ FetchNewsAPI \/ FetchNaver \/ FetchBing

(***************************************************************************)
(* getTrendingTopics (lines 335-423) over storage.searchArticles.  Time is *)
(* counted in days; a changePercent is kept in hundredths of a percent     *)
(* before rounding and in tenths after it.                                 *)
(***************************************************************************)
SevenDays == 7          \* 7 * 24 * 60 * 60 * 1000
QueryLimit == 100       \* .limit(100)
TopTrends == 5          \* .slice(0, 5)
TrendNow == 10
\* a null category column
NullCategory == "null"

TrendRow(id, category, publishedAt) ==
    RowOf([url |-> id, title |-> <<>>, publishedAt |-> publishedAt,
           category |-> category], id)

\* a table made of blocks of n rows with one category and date each
RECURSIVE StoreOf(_)
StoreOf(blocks) ==
    IF blocks = <<>> THEN {}
    ELSE LET rest == StoreOf(SubSeq(blocks, 1, Len(blocks) - 1))
             b == blocks[Len(blocks)]
         IN rest \cup {TrendRow(Cardinality(rest) + k, b.category, b.publishedAt) :
                          k \in 1..b.n}

\* up to MaxRows rows of: technology today, technology 7 days ago, general
\* yesterday, sports 8 days ago, no category today; with or without
\* QueryLimit more technology rows of today
TrendStores ==
    { StoreOf(<<[category |-> "technology", publishedAt |-> TrendNow, n |-> big],
                [category |-> "technology", publishedAt |-> TrendNow, n |-> c[1]],
                [category |-> "technology", publishedAt |-> TrendNow - SevenDays,
                 n |-> c[2]],
                [category |-> "general", publishedAt |-> TrendNow - 1, n |-> c[3]],
                [category |-> "sports", publishedAt |-> TrendNow - SevenDays - 1,
                 n |-> c[4]],
                [category |-> NullCategory, publishedAt |-> TrendNow, n |-> c[5]]>>) :
      <<big, c>> \in {0, QueryLimit} \X [1..5 -> 0..MaxRows] }

\* gte(articles.publishedAt, params.startDate)
Since(rows, startDate) == {r \in rows : r.publishedAt >= startDate}

\* orderBy(desc(articles.publishedAt)): rows of one publishedAt come in an
\* order the database chooses, here by ascending or by descending id
Reverse(s) == [i \in 1..Len(s) |-> s[Len(s) + 1 - i]]

OrderBy(rows, tie) ==
    LET ids == {r.id : r \in rows}
        byId == [i \in ids |-> CHOOSE r \in rows : r.id = i]
        ascending == [i \in 1..Max(ids \cup {0}) |-> i]
        Group(date) ==
            LET OfDate(i) == i \in ids /\ byId[i].publishedAt = date
                chosen == SelectSeq(ascending, OfDate)
                group == [j \in 1..Len(chosen) |-> byId[chosen[j]]]
            IN IF tie = "asc" THEN group ELSE Reverse(group)
        RECURSIVE Descending(_)
        Descending(dates) ==
            IF dates = {} THEN <<>>
            ELSE Group(Max(dates)) \o Descending(dates \ {Max(dates)})
    IN Descending({r.publishedAt : r \in rows})

\* .limit(100)
Limit(ordered, n) == slice(ordered, n)

\* searchArticles({ startDate })
searchArticles(rows, startDate, tie) ==
    Limit(OrderBy(Since(rows, startDate), tie), QueryLimit)

\* if (article.category)
HasCategory(article) == article.category # NullCategory

\* lines 360-368: the Map gets an entry per category at the category's first
\* article and counts one for each of its articles
CategoryCount(found) ==
    LET at(category) ==
            {i \in 1..Len(found) : found[i].category = category}
        RECURSIVE Entries(_)
        Entries(categories) ==
            IF categories = {} THEN <<>>
            ELSE LET first ==
                       CHOOSE c \in categories :
                           \A o \in categories : Min(at(c)) <= Min(at(o))
                 IN <<[key |-> first, value |-> Cardinality(at(first))]>>
                        \o Entries(categories \ {first})
    IN Entries({found[i].category :
                   i \in {j \in 1..Len(found) : HasCategory(found[j])}})

\* the displayed names are written in Latin letters here: gisul, gyeongje
\* and ilban stand for the Hangul words of lines 375-377
DisplayName(category) ==
    IF category = "technology" THEN "gisul"
    ELSE IF category = "business" THEN "gyeongje"
    ELSE IF category = "general" THEN "ilban"
    ELSE category

\* Math.random() * 30 - 10, in hundredths: values at and around the
\* thresholds and at the ends of the range
RawChanges == {-1000, -205, -200, 200, 204, 1999}

\* changePercent > 2 ? "up" : changePercent < -2 ? "down" : "stable"
Direction(changePercent) ==
    IF changePercent > 200 THEN "up"
    ELSE IF changePercent < -200 THEN "down" ELSE "stable"

\* Math.round(changePercent * 10) / 10, in tenths
RoundTenths(changePercent) == (changePercent + 5) \div 10

Signal(entry, changePercent) ==
    [category |-> DisplayName(entry.key),
     trendDirection |-> Direction(changePercent),
     articleCount |-> entry.value,
     changePercent |-> RoundTenths(changePercent)]

\* lines 388-407
FallbackTrends ==
    << [category |-> "gisul", trendDirection |-> "up",
        articleCount |-> 124, changePercent |-> 152],
       [category |-> "gyeongje", trendDirection |-> "up",
        articleCount |-> 98, changePercent |-> 85],
       [category |-> "ilban", trendDirection |-> "stable",
        articleCount |-> 65, changePercent |-> 5] >>
\* lines 414-421
ErrorFallback ==
    << [category |-> "gisul", trendDirection |-> "up",
        articleCount |-> 124, changePercent |-> 152] >>

\* trends.sort((a, b) => b.articleCount - a.articleCount)
InsertByCount(s, x) ==
    LET after == {j \in 1..Len(s) : s[j].articleCount - x.articleCount < 0}
        at == IF after = {} THEN Len(s) + 1 ELSE Min(after)
    IN SubSeq(s, 1, at - 1) \o <<x>> \o SubSeq(s, at, Len(s))

RECURSIVE SortTrends(_)
SortTrends(s) ==
    IF s = <<>> THEN <<>>
    ELSE InsertByCount(SortTrends(SubSeq(s, 1, Len(s) - 1)), s[Len(s)])

NeverEmpty(trends) == FALSE
\* trends.length === 0
NoTrends(trends) == Len(trends) = 0

\* lines 386-410
ReturnedTrends(trends) ==
    IF NoTrends(trends) THEN FallbackTrends
    ELSE slice(SortTrends(trends), TopTrends)

SearchIdle(rows) ==
    /\ table = rows
    /\ nextId = Cardinality(rows) + 1
    /\ deduplicated = [p \in Calls |-> <<>>]
    /\ persistIndex = [p \in Calls |-> 0]
    /\ persistedArticles = [p \in Calls |-> <<>>]
    /\ createRet = [p \in Calls |-> NoCall]
    /\ persistErrors = [p \in Calls |-> {}]
    /\ sorted = [p \in Calls |-> <<>>]
    /\ spc = [p \in Calls |-> "idle"]

TrendIdle ==
    /\ today = TrendNow
    /\ queried = <<>>
    /\ storeFailed = FALSE
    /\ trendResult = <<>>
    /\ tpc = "idle"

TrendInit ==
    /\ today = TrendNow
    /\ queried = <<>>
    /\ storeFailed = FALSE
    /\ trendResult = <<>>
    /\ tpc = "query"

\* lines 354-357: storage.searchArticles resolves
QueryResolves ==
    /\ tpc = "query"
    /\ \E tie \in {"asc", "desc"} :
          queried' = searchArticles(table, today - SevenDays, tie)
    /\ tpc' = "aggregate"
    /\ UNCHANGED <<today, storeFailed, trendResult>>
    /\ UNCHANGED <<dedupVars, searchVars, monitorVars, fetchVars, sideVars>>

\* storage.searchArticles rejects: the catch of lines 411-422 returns its
\* own fallback list
QueryRejects ==
    /\ tpc = "query"
    /\ storeFailed' = TRUE
    /\ trendResult' = ErrorFallback
    /\ tpc' = "done"
    /\ UNCHANGED <<today, queried>>
    /\ UNCHANGED <<dedupVars, searchVars, monitorVars, fetchVars, sideVars>>

\* lines 359-410
BuildTrends ==
    /\ tpc = "aggregate"
    /\ LET counts == CategoryCount(queried) IN
       \E changes \in [1..Len(counts) -> RawChanges] :
           trendResult' =
               ReturnedTrends([i \in 1..Len(counts) |->
                                  Signal(counts[i], changes[i])])
    /\ tpc' = "done"
    /\ UNCHANGED <<today, queried, storeFailed>>
    /\ UNCHANGED <<dedupVars, searchVars, monitorVars, fetchVars, sideVars>>

TrendNext == QueryResolves \/ QueryRejects \/ BuildTrends

(***************************************************************************)
(* The hourly summary job (setupScheduler, scheduler.ts 8-70, and          *)
(* sendNewsSummaryEmail).  Time is counted in hours; a run of the job is   *)
(* over before the next hour begins.                                       *)
(***************************************************************************)
HoursPerDay == 24
\* the active subscriptions, in the order the store returns them
SummarySubscriptions == <<"m0", "m1", "m23">>
\* subscription.deliveryHour (0-23)
DeliveryHourOf(sub) ==
    CASE sub = "m0" -> 0 [] sub = "m1" -> 1 [] OTHER -> 23

\* (subscription.deliveryHour - 1 + 24) % 24
ProcessingHour(deliveryHour) == (deliveryHour - 1 + HoursPerDay) % HoursPerDay

\* how the body of the loop ends for a subscription of this hour: the user
\* has no email, a keyword search rejected, nothing was found, the summary
\* was sent, or preparing or sending it failed
JobOutcomes == {"noEmail", "searchThrew", "noArticles", "sent", "sendFailed"}

JobIdle ==
    /\ wallHour = 0
    /\ hoursRun = 0
    /\ cronRan = TRUE
    /\ currentHour = 0
    /\ remaining = <<>>
    /\ mailed = {}
    /\ jpc = "idle"

\* the process starts at any time of the day, between two cron calls
JobInit ==
    /\ wallHour \in 0..(HoursPerDay - 1)
    /\ hoursRun = 0
    /\ cronRan = TRUE
    /\ currentHour = wallHour
    /\ remaining = <<>>
    /\ mailed = {}
    /\ jpc = "idle"

\* the next hour begins
HourPasses ==
    /\ jpc = "idle"
    /\ cronRan
    /\ hoursRun < MaxHours
    /\ wallHour' = (wallHour + 1) % HoursPerDay
    /\ hoursRun' = hoursRun + 1
    /\ cronRan' = FALSE
    /\ UNCHANGED <<currentHour, remaining, mailed, jpc>>
    /\ UNCHANGED <<coreVars, poolVars, socketVars, bookmarkVars>>

\* cron.schedule("0 * * * *", ...): lines 12-18
CronFires ==
    /\ jpc = "idle"
    /\ ~cronRan
    /\ cronRan' = TRUE
    /\ currentHour' = wallHour
    /\ remaining' = SummarySubscriptions
    /\ jpc' = "loop"
    /\ UNCHANGED <<wallHour, hoursRun, mailed>>
    /\ UNCHANGED <<coreVars, poolVars, socketVars, bookmarkVars>>

\* getAllActiveSubscriptions rejects: the outer catch, lines 64-66
CronStoreFails ==
    /\ jpc = "idle"
    /\ ~cronRan
    /\ cronRan' = TRUE
    /\ currentHour' = wallHour
    /\ UNCHANGED <<wallHour, hoursRun, remaining, mailed, jpc>>
    /\ UNCHANGED <<coreVars, poolVars, socketVars, bookmarkVars>>

\* await sendNewsSummaryEmail(...): the PDF is generated and client.send is
\* awaited in the same call (emailService.ts 190-223)
SendSummary(sub, outcome) ==
    IF outcome = "sent"
    THEN mailed' = mailed \cup {[sub |-> sub, preparedAt |-> wallHour,
                                  sentAt |-> wallHour]}
    ELSE UNCHANGED mailed

\* one iteration of `for (const subscription of subscriptions)`, lines 20-62
ProcessSubscription ==
    /\ jpc = "loop"
    /\ remaining # <<>>
    /\ LET sub == Head(remaining) IN
       IF currentHour = ProcessingHour(DeliveryHourOf(sub))
       THEN \E outcome \in JobOutcomes : SendSummary(sub, outcome)
       ELSE UNCHANGED mailed
    /\ remaining' = Tail(remaining)
    /\ jpc' = IF Tail(remaining) = <<>> THEN "idle" ELSE "loop"
    /\ UNCHANGED <<wallHour, hoursRun, cronRan, currentHour>>
    /\ UNCHANGED <<coreVars, poolVars, socketVars, bookmarkVars>>

JobNext == HourPasses \/ CronFires \/ CronStoreFails \/ ProcessSubscription

(***************************************************************************)
(* The embedding requests of deduplicateArticles (lines 209-220): pLimit   *)
(* keeps a FIFO queue of the calls and starts one whenever fewer than its  *)
(* concurrency are running; generateEmbedding catches every failure, so    *)
(* every call resolves.                                                    *)
(***************************************************************************)
\* pLimit(10)
ConcurrencyLimit == 10

AlwaysStart(running) == TRUE
\* activeCount < concurrency
CanStart(running) == running < ConcurrencyLimit

PoolIdle ==
    /\ toEmbed = 0
    /\ queued = <<>>
    /\ active = {}
    /\ resolved = {}
    /\ epc = "idle"

\* afterTitleDedup.map(article => limit(...)) has queued a call for every
\* survivor of phase 1
PoolInit ==
    /\ toEmbed \in 0..MaxSurvivors
    /\ queued = [i \in 1..toEmbed |-> i]
    /\ active = {}
    /\ resolved = {}
    /\ epc = "awaiting"

\* pLimit starts the call at the head of its queue
StartRequest ==
    /\ queued # <<>>
    /\ CanStart(Cardinality(active))
    /\ active' = active \cup {Head(queued)}
    /\ queued' = Tail(queued)
    /\ UNCHANGED <<toEmbed, resolved, epc>>
    /\ UNCHANGED <<coreVars, jobVars, socketVars, bookmarkVars>>

\* a call's generateArticleEmbedding returns (an embedding or null)
RequestSettles ==
    /\ \E i \in active :
          /\ active' = active \ {i}
          /\ resolved' = resolved \cup {i}
    /\ UNCHANGED <<toEmbed, queued, epc>>
    /\ UNCHANGED <<coreVars, jobVars, socketVars, bookmarkVars>>

\* await Promise.all(embeddingPromises) resumes: line 220
AwaitAll ==
    /\ epc = "awaiting"
    /\ resolved = 1..toEmbed
    /\ epc' = "awaited"
    /\ UNCHANGED <<toEmbed, queued, active, resolved>>
    /\ UNCHANGED <<coreVars, jobVars, socketVars, bookmarkVars>>

PoolNext == StartRequest \/ RequestSettles \/ AwaitAll

(***************************************************************************)
(* The websocket server (websocket.ts): the connections registry and the   *)
(* handlers setupWebSocketServer installs on every connection.             *)
(***************************************************************************)
Sockets == 1..MaxSockets
\* the userId strings a client sends in its auth message
UserIds == {"alice", "bob"}
NoUser == "null"

\* const connections = new Map<string, Set<WebSocket>>()
SocketInit ==
    /\ connections = [u \in {} |-> {}]
    /\ readyState = [ws \in Sockets |-> "NONE"]
    /\ hasSession = [ws \in Sockets |-> FALSE]
    /\ userId = [ws \in Sockets |-> NoUser]
    /\ isAuthenticated = [ws \in Sockets |-> FALSE]

\* getUserIdFromSession(request): the placeholder when the request has a
\* connect.sid cookie, null otherwise
getUserIdFromSession(ws) ==
    IF hasSession[ws] THEN "session-verified" ELSE NoUser

\* wss.on("connection", ...): lines 48-52
Connection ==
    /\ \E ws \in Sockets : \E cookie \in BOOLEAN :
          /\ readyState[ws] = "NONE"
          /\ readyState' = [readyState EXCEPT ![ws] = "OPEN"]
          /\ hasSession' = [hasSession EXCEPT ![ws] = cookie]
    /\ UNCHANGED <<connections, userId, isAuthenticated>>
    /\ UNCHANGED <<coreVars, jobVars, poolVars, bookmarkVars>>

\* connections.get(userIdStr)!.add(ws), after connections.set when absent
Register(m, user, ws) ==
    [u \in DOMAIN m \cup {user} |->
        IF u = user
        THEN (IF u \in DOMAIN m THEN m[u] ELSE {}) \cup {ws}
        ELSE m[u]]

\* ws.on("message", ...) with an auth message: lines 55-91
AuthMessage ==
    /\ \E ws \in Sockets : \E userIdStr \in UserIds :
          /\ readyState[ws] = "OPEN"
          /\ IF getUserIdFromSession(ws) = NoUser
             THEN /\ readyState' = [readyState EXCEPT ![ws] = "CLOSING"]
                  /\ UNCHANGED <<connections, userId, isAuthenticated>>
             ELSE /\ userId' = [userId EXCEPT ![ws] = userIdStr]
                  /\ isAuthenticated' = [isAuthenticated EXCEPT ![ws] = TRUE]
                  /\ connections' = Register(connections, userIdStr, ws)
                  /\ UNCHANGED readyState
    /\ UNCHANGED hasSession
    /\ UNCHANGED <<coreVars, jobVars, poolVars, bookmarkVars>>

\* userConnections.delete(ws), and connections.delete(userId) when the set
\* is empty: lines 100-105
Unregister(m, user, ws) ==
    IF user \notin DOMAIN m THEN m
    ELSE IF m[user] \ {ws} = {}
         THEN [u \in DOMAIN m \ {user} |-> m[u]]
         ELSE [m EXCEPT ![user] = @ \ {ws}]

\* ws.on("close", ...): lines 98-111; the client went away, or the close
\* the server asked for has completed
CloseEvent ==
    /\ \E ws \in Sockets :
          /\ readyState[ws] \in {"OPEN", "CLOSING"}
          /\ readyState' = [readyState EXCEPT ![ws] = "CLOSED"]
          /\ connections' =
                IF userId[ws] # NoUser
                THEN Unregister(connections, userId[ws], ws)
                ELSE connections
    /\ UNCHANGED <<hasSession, userId, isAuthenticated>>
    /\ UNCHANGED <<coreVars, jobVars, poolVars, bookmarkVars>>

SocketNext == Connection \/ AuthMessage \/ CloseEvent

(***************************************************************************)
(* POST /api/bookmarks (lines 194-223 of the routes) over the bookmarks    *)
(* table, whose unique index is on (userId, articleId).                    *)
(***************************************************************************)
Posts == 1..MaxPosts
\* {...req.body, userId}; a body without an articleId has "undefined"
NoArticle == "undefined"
Bodies == [userId : UserIds, articleId : {"a1", "a2", NoArticle}]
\* insertBookmarkSchema.parse(...) returns (it throws a ZodError otherwise)
Parses(data) == data.articleId # NoArticle
NoResponse == [status |-> 0, bookmark |-> {}]

BookmarkInit ==
    /\ bookmarks = {}
    /\ nextBookmark = 1
    /\ body = [r \in Posts |-> [userId |-> "alice", articleId |-> NoArticle]]
    /\ reply = [r \in Posts |-> NoResponse]
    /\ bpc = [r \in Posts |-> "idle"]

\* storage.getBookmark(userId, articleId): the row of the pair, if any
getBookmark(rows, user, article) ==
    {b \in rows : b.userId = user /\ b.articleId = article}

\* uniqueIndex("bookmarks_user_article_unique_idx")
PairTaken(rows, data) ==
    getBookmark(rows, data.userId, data.articleId) # {}

Respond(r, status, bookmark) ==
    /\ reply' = [reply EXCEPT
          ![r] = [status |-> status, bookmark |-> bookmark]]
    /\ bpc' = [bpc EXCEPT ![r] = "done"]

\* lines 194-205: the request arrives, its body is parsed and getBookmark is
\* called; a ZodError is answered 400
PostBookmark ==
    /\ \E r \in Posts : \E data \in Bodies :
          /\ bpc[r] = "idle"
          /\ body' = [body EXCEPT ![r] = data]
          /\ IF ~Parses(data)
             THEN Respond(r, 400, {})
             ELSE /\ bpc' = [bpc EXCEPT ![r] = "check"]
                  /\ UNCHANGED reply
    /\ UNCHANGED <<bookmarks, nextBookmark>>
    /\ UNCHANGED <<coreVars, jobVars, poolVars, socketVars>>

\* lines 205-213: getBookmark resolves; an existing bookmark is answered
\* 409, otherwise createBookmark is called
CheckExisting ==
    /\ \E r \in Posts :
          /\ bpc[r] = "check"
          /\ LET existingBookmark ==
                     getBookmark(bookmarks, body[r].userId, body[r].articleId)
             IN IF existingBookmark # {}
                THEN Respond(r, 409, existingBookmark)
                ELSE /\ bpc' = [bpc EXCEPT ![r] = "insert"]
                     /\ UNCHANGED reply
    /\ UNCHANGED <<bookmarks, nextBookmark, body>>
    /\ UNCHANGED <<coreVars, jobVars, poolVars, socketVars>>

\* lines 213-222: createBookmark resolves to the new row (201), or the
\* insert is refused by the unique index and the catch answers 500
InsertBookmark ==
    /\ \E r \in Posts :
          /\ bpc[r] = "insert"
          /\ IF PairTaken(bookmarks, body[r])
             THEN /\ Respond(r, 500, {})
                  /\ UNCHANGED <<bookmarks, nextBookmark>>
             ELSE LET created == [id |-> nextBookmark,
                                  userId |-> body[r].userId,
                                  articleId |-> body[r].articleId]
                  IN /\ bookmarks' = bookmarks \cup {created}
                     /\ nextBookmark' = nextBookmark + 1
                     /\ Respond(r, 201, {created})
    /\ UNCHANGED body
    /\ UNCHANGED <<coreVars, jobVars, poolVars, socketVars>>

BookmarkNext == PostBookmark \/ CheckExisting \/ InsertBookmark

(***************************************************************************)
(* Specifications.                                                         *)
(***************************************************************************)
DedupIdle ==
    /\ articles = <<>>
    /\ openaiKey = FALSE
    /\ afterTitleDedup = <<>>
    /\ embeddingResults = <<>>
    /\ semanticDeduped = <<>>
    /\ semIndex = 0
    /\ dedupResult = <<>>
    /\ dpc = "idle"

CoreIdle == DedupIdle /\ SearchInit /\ MonitorInit /\ FetchIdle /\ TrendIdle
SideIdle == JobIdle /\ PoolIdle /\ SocketInit /\ BookmarkInit

\* one run of deduplicateArticles over every bounded input
InitDedup ==
    DedupInit /\ SearchInit /\ MonitorInit /\ FetchIdle /\ TrendIdle /\ SideIdle
SpecDedup == InitDedup /\ [][DedupNext]_vars

\* concurrent searchNews calls over one table
InitSearch ==
    DedupIdle /\ SearchInit /\ MonitorInit /\ FetchIdle /\ TrendIdle /\ SideIdle
SpecSearch == InitSearch /\ [][SearchNext]_vars

\* the monitor's timer and its scans
InitMonitor ==
    DedupIdle /\ SearchInit /\ MonitorInit /\ FetchIdle /\ TrendIdle /\ SideIdle
SpecMonitor == InitMonitor /\ [][MonitorNext]_vars

\* the fetch part of one searchNews call over every source parameter,
\* environment and adapter answer
InitFetch ==
    DedupIdle /\ SearchInit /\ MonitorInit /\ FetchInit /\ TrendIdle /\ SideIdle
SpecFetch == InitFetch /\ [][FetchNext]_vars

\* one getTrendingTopics call over every bounded table
InitTrends ==
    /\ DedupIdle /\ MonitorInit /\ FetchIdle /\ TrendInit
    /\ \E rows \in TrendStores : SearchIdle(rows)
    /\ SideIdle
SpecTrends == InitTrends /\ [][TrendNext]_vars

\* the hourly summary job from every hour of the day
InitJob == CoreIdle /\ JobInit /\ PoolIdle /\ SocketInit /\ BookmarkInit
SpecJob == InitJob /\ [][JobNext]_vars

\* the embedding requests of one run, for every number of survivors; pLimit
\* starts a queued call as soon as a running one ends, every request ends
\* (the client's timeout), and the awaiting function is resumed
InitPool ==
    CoreIdle /\ JobIdle /\ PoolInit /\ SocketInit /\ BookmarkInit
SpecPoolFair ==
    /\ InitPool /\ [][PoolNext]_vars
    /\ WF_vars(StartRequest) /\ WF_vars(RequestSettles) /\ WF_vars(AwaitAll)

\* the websocket server under every order of connections, auth messages
\* and closes
InitSocket ==
    CoreIdle /\ JobIdle /\ PoolIdle /\ SocketInit /\ BookmarkInit
SpecSocket == InitSocket /\ [][SocketNext]_vars

\* concurrent POST /api/bookmarks requests over one table
InitBookmark == CoreIdle /\ JobIdle /\ PoolIdle /\ SocketInit /\ BookmarkInit
SpecBookmark == InitBookmark /\ [][BookmarkNext]_vars

\* all of them together
Init ==
    /\ DedupInit /\ SearchInit /\ MonitorInit /\ FetchInit /\ TrendInit
    /\ JobInit /\ PoolInit /\ SocketInit /\ BookmarkInit
Next ==
    \/ DedupNext \/ SearchNext \/ MonitorNext \/ FetchNext \/ TrendNext
    \/ JobNext \/ PoolNext \/ SocketNext \/ BookmarkNext
Spec == Init /\ [][Next]_vars

(***************************************************************************)
(* Properties of the article table (SpecSearch).                           *)
(***************************************************************************)
NoTwoRowsWithOneUrl == \A r1, r2 \in table : r1.url = r2.url => r1 = r2
RowsAreKept == \A r \in table : r \in table'

\* C1: under every interleaving of searchNews calls the table never holds
\* two rows with one url, and a row, once written, stays in the table as it
\* was written: the row of a url is the one its first successful
\* createArticle wrote, whatever later fetches of that url carry.
C1_UrlIdentity == []NoTwoRowsWithOneUrl /\ [][RowsAreKept]_vars

\* a later fetch of a stored url, carrying other fields, was answered with
\* the stored row
C1_Witness ==
    \E p \in Calls :
        /\ persistIndex[p] > 0
        /\ createRet[p].kind = "returned"
        /\ \E r \in createRet[p].value :
              LET a == deduplicated[p][persistIndex[p]] IN
              /\ r \in table
              /\ r.url = a.url
              /\ r.title # a.title
              /\ r.publishedAt # a.publishedAt

StoredUnder(url) == {r \in table : r.url = url}
InCreateArticle(p) ==
    \/ spc[p] = "persist" /\ persistIndex[p] < Len(deduplicated[p])
    \/ spc[p] = "refetch"
CreateArticleMoves(p) ==
    spc'[p] # spc[p] \/ persistIndex'[p] # persistIndex[p]

\* C2: createArticle for an article whose url is already stored leaves the
\* table as it is and does not fail on the conflict: the insert is followed
\* by the lookup, and the lookup returns the stored row of that url, which
\* searchNews collects.  (The only other way out is a store that cannot be
\* reached, which is not the conflict.)  Every such call therefore gets the
\* same row.
C2_ExistingRowReturned ==
    [][\A p \in Calls :
          (InCreateArticle(p) /\ CreateArticleMoves(p)
              /\ StoredUnder(CurrentArticle(p).url) # {})
          => /\ table' = table
             /\ \/ createRet'[p] = Threw("other")
                \/ spc[p] = "persist" /\ spc'[p] = "refetch"
                \/ /\ spc[p] = "refetch"
                   /\ createRet'[p] =
                         Returned(StoredUnder(CurrentArticle(p).url))
                   /\ Cardinality(StoredUnder(CurrentArticle(p).url)) = 1
                   /\ \E r \in StoredUnder(CurrentArticle(p).url) :
                         persistedArticles'[p] =
                            Append(persistedArticles[p], r)]_vars

\* two calls asked for the same stored url and hold the same row
C2_Witness ==
    \E p, q \in Calls :
        /\ p # q
        /\ createRet[p].kind = "returned"
        /\ createRet[p].value # {}
        /\ createRet[q] = createRet[p]
        /\ spc[p] = "done" /\ spc[q] = "done"

\* C4: the list searchNews returns is ordered by publishedAt descending.
C4_ResultSortedDescending ==
    \A p \in Calls :
        spc[p] = "done" =>
            \A i \in 1..(Len(sorted[p]) - 1) :
                sorted[p][i].publishedAt >= sorted[p][i + 1].publishedAt

\* a call returned two rows in the opposite order of their persisting
C4_Witness ==
    \E p \in Calls :
        /\ spc[p] = "done"
        /\ Len(sorted[p]) = 2
        /\ sorted[p][1].publishedAt > sorted[p][2].publishedAt
        /\ persistedArticles[p] = <<sorted[p][2], sorted[p][1]>>

(***************************************************************************)
(* Properties of deduplicateArticles (SpecDedup).                          *)
(***************************************************************************)
\* the bucket key of every title of the inputs, computed once
BucketOfTitle == [t \in Titles |-> NormalizeTitle(t)]
BucketOf(a) == BucketOfTitle[a.title]
BucketMembers(key) == {j \in 1..Len(articles) : BucketOf(articles[j]) = key}
BucketWinner(key) ==
    LET members == BucketMembers(key)
        latest == Max({articles[j].publishedAt : j \in members})
    IN Min({j \in members : articles[j].publishedAt = latest})

\* C3: phase 1 keeps, for every normalized-title bucket of the input,
\* exactly one article: the one with the greatest publishedAt of the bucket,
\* and among those tied for it the first of the input.
C3_Phase1KeepsLatestFirst ==
    dpc # "phase1" =>
        \A i \in 1..Len(articles) :
            LET key == BucketOf(articles[i])
                kept == {k \in 1..Len(afterTitleDedup) :
                            BucketOf(afterTitleDedup[k]) = key}
            IN /\ Cardinality(kept) = 1
               /\ \A k \in kept : afterTitleDedup[k] = articles[BucketWinner(key)]

\* a bucket of three: an older article, then two tied for the latest date
C3_Witness ==
    /\ dpc # "phase1"
    /\ \E i, j, k \in 1..Len(articles) :
          /\ i < j /\ j < k
          /\ BucketOf(articles[i]) = BucketOf(articles[j])
          /\ BucketOf(articles[j]) = BucketOf(articles[k])
          /\ articles[i].title # articles[j].title
          /\ articles[i].publishedAt < articles[j].publishedAt
          /\ articles[j].publishedAt = articles[k].publishedAt
          /\ afterTitleDedup = <<articles[j]>>

HasEmbedding(item) == item.embedding # <<>>
SemanticRan == dpc = "done" /\ SuccessfulEmbeddings(embeddingResults) > 0
InOutput(item) == WithEmbedding(item) \in Range(dedupResult)

\* the kept list as it was when embeddingResults[i] was taken up
KeptBefore(i) == SemanticFold(SubSeq(embeddingResults, 1, i - 1))

\* C5, as claimed: whenever an article with an embedding is similar to an
\* already-kept article with an embedding, exactly one of the two is in the
\* output, the new one if and only if it is strictly later.
C5_ExactlyOneInOutput ==
    SemanticRan =>
        \A i \in 1..Len(embeddingResults) :
            \A k \in 1..Len(KeptBefore(i)) :
                LET item == embeddingResults[i]
                    kept == KeptBefore(i)[k]
                IN (/\ HasEmbedding(item)
                    /\ HasEmbedding(kept)
                    /\ areArticlesSimilar(item.embedding, kept.embedding))
                   => /\ InOutput(item) # InOutput(kept)
                      /\ InOutput(item) <=>
                            item.article.publishedAt > kept.article.publishedAt

SimilarPositions(item) ==
    {k \in 1..Len(semanticDeduped) :
        /\ HasEmbedding(item)
        /\ HasEmbedding(semanticDeduped[k])
        /\ areArticlesSimilar(item.embedding, semanticDeduped[k].embedding)}

FirstSimilarDecides ==
    (dpc = "semantic" /\ semIndex' = semIndex + 1) =>
        LET item == embeddingResults[semIndex + 1] IN
        SimilarPositions(item) # {} =>
            LET k == Min(SimilarPositions(item))
                old == semanticDeduped[k]
            IN /\ (item \in Range(semanticDeduped'))
                    # (old \in Range(semanticDeduped'))
               /\ semanticDeduped' =
                     IF item.article.publishedAt > old.article.publishedAt
                     THEN [semanticDeduped EXCEPT ![k] = item]
                     ELSE semanticDeduped

TwoSimilarLeaveTheLater ==
    (/\ SemanticRan
     /\ Len(embeddingResults) = 2
     /\ HasEmbedding(embeddingResults[1])
     /\ HasEmbedding(embeddingResults[2])
     /\ areArticlesSimilar(embeddingResults[1].embedding,
                           embeddingResults[2].embedding))
    => dedupResult =
          IF embeddingResults[2].article.publishedAt
                > embeddingResults[1].article.publishedAt
          THEN <<WithEmbedding(embeddingResults[2])>>
          ELSE <<WithEmbedding(embeddingResults[1])>>

\* C5, amended: when an article with an embedding is similar to kept
\* articles with embeddings, then right after it is handled exactly one of
\* it and the first such kept article is in the kept list: it takes that
\* article's place if it is strictly later and is discarded otherwise; of
\* two phase-1 survivors with similar embeddings exactly one is returned,
\* the later one (the first on equal dates).
C5_FirstSimilarKeptDecides ==
    []TwoSimilarLeaveTheLater /\ [][FirstSimilarDecides]_vars

\* two survivors with similar embeddings, the second strictly later: the
\* second took the first one's place
C5_Witness ==
    /\ SemanticRan
    /\ Len(embeddingResults) = 2
    /\ embeddingResults[1].embedding = <<1, 0>>
    /\ embeddingResults[2].embedding = <<2, 1>>
    /\ embeddingResults[2].article.publishedAt
          > embeddingResults[1].article.publishedAt
    /\ dedupResult = <<WithEmbedding(embeddingResults[2])>>

\* C6: when some embedding failed and another succeeded, the run does not
\* raise, and a survivor without an embedding, once taken up by the loop,
\* is in the kept list from then on and in the output.
C6_NoEmbeddingAlwaysKept ==
    /\ dpc # "raised"
    /\ \A i \in 1..semIndex :
          ~HasEmbedding(embeddingResults[i])
             => embeddingResults[i] \in Range(semanticDeduped)
    /\ SemanticRan =>
          \A i \in 1..Len(embeddingResults) :
              ~HasEmbedding(embeddingResults[i])
                 => InOutput(embeddingResults[i])

\* three survivors: one without an embedding is returned, while one of the
\* two others was dropped as a semantic duplicate
C6_Witness ==
    /\ SemanticRan
    /\ Len(embeddingResults) = 3
    /\ ~HasEmbedding(embeddingResults[2])
    /\ HasEmbedding(embeddingResults[1])
    /\ HasEmbedding(embeddingResults[3])
    /\ Len(dedupResult) = 2
    /\ InOutput(embeddingResults[2])

\* C7: whatever the embeddings, deduplicateArticles returns at most as many
\* articles as phase 1 alone (afterTitleDedup, what it returns without the
\* oracle), and every article it returns is a phase-1 survivor.
C7_SemanticOnlyRemoves ==
    dpc = "done" =>
        /\ Len(dedupResult) <= Len(afterTitleDedup)
        /\ \A i \in 1..Len(dedupResult) :
              WithoutEmbedding(dedupResult[i]) \in Range(afterTitleDedup)

\* the oracle is configured, one request failed, and the output is shorter
\* than the phase-1 result
C7_Witness ==
    /\ SemanticRan
    /\ openaiKey
    /\ \E i \in 1..Len(embeddingResults) : ~HasEmbedding(embeddingResults[i])
    /\ Len(dedupResult) < Len(afterTitleDedup)

\* C8: without an OPENAI_API_KEY, or when every embedding request failed,
\* deduplicateArticles ends, without raising, with exactly the phase-1
\* result afterTitleDedup: the same articles in the same order.
C8_SkipReturnsPhase1 ==
    (\/ dpc # "phase1" /\ ~openaiKey
     \/ dpc \notin {"phase1", "embed"}
           /\ SuccessfulEmbeddings(embeddingResults) = 0)
    => /\ dpc = "done"
       /\ dedupResult = afterTitleDedup

\* the key is set, two survivors, both requests failed
C8_Witness ==
    /\ dpc = "done"
    /\ openaiKey
    /\ Len(embeddingResults) = 2
    /\ SuccessfulEmbeddings(embeddingResults) = 0
    /\ dedupResult = afterTitleDedup
    /\ Len(articles) = 3

\* C9: phase 1 applied to its own output returns that output, in the same
\* order.
C9_LexicalIdempotent ==
    dpc # "phase1" => TitleDedup(afterTitleDedup) = afterTitleDedup

\* phase 1 dropped an article and kept two
C9_Witness ==
    /\ dpc # "phase1"
    /\ Len(afterTitleDedup) = 2
    /\ Len(articles) = 3
    /\ TitleDedup(afterTitleDedup) = afterTitleDedup

(***************************************************************************)
(* Properties of the monitor (SpecMonitor).                                *)
(***************************************************************************)
\* C10: for every subscription the lastCheckedAt held in lastCheckTimes
\* never decreases from one write to the next and is never later than the
\* current time, also when a tick starts before the previous tick's scan
\* has finished.
C10_WatermarkMonotone ==
    [][\A s \in DOMAIN lastCheckTimes' :
          /\ lastCheckTimes'[s] <= clock'
          /\ s \in DOMAIN lastCheckTimes
                => lastCheckTimes'[s] >= lastCheckTimes[s]]_vars

(***************************************************************************)
(* C11: every scan of a subscription ends by writing its own now into the  *)
(* subscription's lastCheckedAt, whether it found new articles, found none *)
(* or had every keyword search fail (the scan that returned last is the    *)
(* last writer), and a scan started while the subscription has no          *)
(* lastCheckedAt reads now minus 5 minutes as its watermark.               *)
(***************************************************************************)
LastScanWroteItsNow ==
    \A f \in finished :
        f.sub \in DOMAIN lastCheckTimes /\ lastCheckTimes[f.sub] = f.now

ScanStartsFromWatermark ==
    firedAt' # firedAt =>
        \A scan \in scans' \ scans :
            /\ scan.now = clock
            /\ scan.lastCheck =
                  IF scan.sub \in DOMAIN lastCheckTimes
                  THEN lastCheckTimes[scan.sub]
                  ELSE scan.now - DefaultLookback

C11_ScanOverwritesWatermark ==
    []LastScanWroteItsNow /\ [][ScanStartsFromWatermark]_vars

\* a first scan whose every keyword search failed has written its now
C11_Witness ==
    \E f \in finished :
        /\ f.errors = Len(KeywordsOf(f.sub))
        /\ f.articles = <<>>
        /\ f.lastCheck = f.now - DefaultLookback
        /\ lastCheckTimes[f.sub] = f.now

(***************************************************************************)
(* C12: the notification of a scan carries only articles published         *)
(* strictly after the watermark the scan read at its start, counts exactly *)
(* those, and a scan whose search results are all at or before that        *)
(* watermark sends no notification.                                        *)
(***************************************************************************)
PublishedAfter(found, lastCheck) ==
    {i \in 1..Len(found) : found[i].publishedAt > lastCheck}

C12_OnlyStrictlyNewer ==
    \A f \in finished :
        /\ \A i \in 1..Len(notifications) :
              /\ \A j \in 1..Len(notifications[i].articles) :
                    notifications[i].articles[j].publishedAt > f.lastCheck
              /\ notifications[i].count =
                    Cardinality(PublishedAfter(f.articles, f.lastCheck))
        /\ PublishedAfter(f.articles, f.lastCheck) = {}
              => notifications = <<>>

\* a scan found one article at its watermark and one after it, and notified
\* about the later one only
C12_Witness ==
    \E f \in finished :
        /\ \E i \in 1..Len(f.articles) :
              f.articles[i].publishedAt = f.lastCheck
        /\ Len(notifications) = 1
        /\ notifications[1].count = 1
        /\ notifications[1].articles[1].publishedAt > f.lastCheck

(***************************************************************************)
(* C13: a scan calls the notification sink exactly once when its filtered  *)
(* list of new articles is not empty and not at all when it is empty; the  *)
(* notification is addressed to the subscription's owner and carries the   *)
(* first 3 new articles (all of them when there are fewer) and the         *)
(* subscription's whole keyword list.                                      *)
(***************************************************************************)
NewOf(f) ==
    LET new == PublishedAfter(f.articles, f.lastCheck)
        RECURSIVE Pick(_)
        Pick(i) ==
            IF i = 0 THEN <<>>
            ELSE IF i \in new THEN Append(Pick(i - 1), f.articles[i])
                 ELSE Pick(i - 1)
    IN Pick(Len(f.articles))

C13_OneCappedNotification ==
    \A f \in finished :
        LET new == NewOf(f) IN
        /\ Len(notifications) = IF Len(new) > 0 THEN 1 ELSE 0
        /\ \A i \in 1..Len(notifications) :
              /\ notifications[i].userId = UserOf(f.sub)
              /\ notifications[i].keywords = KeywordsOf(f.sub)
              /\ Len(notifications[i].articles) = Min({3, Len(new)})
              /\ \A j \in 1..Len(notifications[i].articles) :
                    notifications[i].articles[j] = new[j]

\* a scan with four new articles sent one notification with three of them
C13_Witness ==
    \E f \in finished :
        /\ Len(NewOf(f)) = 4
        /\ Len(notifications) = 1
        /\ Len(notifications[1].articles) = 3
        /\ Len(notifications[1].keywords) = 2

(***************************************************************************)
(* C14: a tick starts a scan for every active subscription, and a step in  *)
(* which the scan of one subscription fails (a keyword search rejects, or  *)
(* the notification sink throws) leaves every other scan in flight as it   *)
(* is; a scan that returns has written its watermark whatever happened to  *)
(* the others.                                                             *)
(***************************************************************************)
FailsInStep(scan) ==
    /\ scan \notin scans'
    /\ \/ \E next \in scans' \ scans :
             /\ next.sub = scan.sub /\ next.now = scan.now
             /\ next.keyword = scan.keyword + 1
             /\ next.errors > scan.errors
       \/ /\ scan.keyword = Len(KeywordsOf(scan.sub))
          /\ \E f \in finished' :
                /\ f.sub = scan.sub /\ f.now = scan.now
                /\ f.lastCheck = scan.lastCheck
                /\ f.errors > scan.errors

ReturnsInStep(scan) ==
    /\ scan \notin scans'
    /\ scan.keyword = Len(KeywordsOf(scan.sub))

FailureIsIsolated ==
    /\ firedAt' # firedAt /\ scans' # scans =>
          \A s \in Subscriptions :
              \E scan \in scans' : scan.sub = s /\ scan.now = clock
    /\ \A scan \in scans :
          /\ FailsInStep(scan) => \A other \in scans \ {scan} : other \in scans'
          /\ ReturnsInStep(scan) =>
                /\ scan.sub \in DOMAIN lastCheckTimes'
                /\ lastCheckTimes'[scan.sub] = scan.now

C14_FailureDoesNotStopTick == [][FailureIsIsolated]_vars

\* the scan of one subscription has returned after a failure while the scan
\* of another subscription of the same tick is still in flight
C14_Witness ==
    \E f \in finished :
        /\ f.errors > 0
        /\ \E other \in scans : other.sub # f.sub /\ other.now = f.now

(***************************************************************************)
(* C15: when createArticle fails for an article of the deduplicated list,  *)
(* searchNews does not raise; the list it returns has one row for every    *)
(* article whose createArticle did not fail, each of them stored in the    *)
(* table, and none for the articles whose createArticle failed.            *)
(***************************************************************************)
C15_PersistFailureDropsOneArticle ==
    \A p \in Calls :
        /\ spc[p] # "raised"
        /\ spc[p] = "done" =>
              /\ Len(sorted[p]) =
                    Len(deduplicated[p]) - Cardinality(persistErrors[p])
              /\ \A i \in (1..Len(deduplicated[p])) \ persistErrors[p] :
                    \E j \in 1..Len(sorted[p]) :
                        /\ sorted[p][j].url = deduplicated[p][i].url
                        /\ sorted[p][j] \in table

\* a call has returned one row although storing its other article failed
C15_Witness ==
    \E p \in Calls :
        /\ spc[p] = "done"
        /\ Len(deduplicated[p]) = 2
        /\ Cardinality(persistErrors[p]) = 1
        /\ Len(sorted[p]) = 1

(***************************************************************************)
(* C16: searchNewsAPI and searchNaverNews never reject: without their      *)
(* credential, on a transport error, a timeout, a 401, 429 or other error  *)
(* status, a refused or missing body list or a body that cannot be mapped, *)
(* the adapter contributes an empty list, and allArticles is the           *)
(* concatenation of what the called adapters contributed, in call order.   *)
(***************************************************************************)
C16_AdaptersNeverRaise ==
    /\ fpc # "raised"
    /\ \A a \in {"newsapi", "naver"} :
          contribution[a].failed => contribution[a].list = <<>>
    /\ fpc = "dedup" =>
          allArticles = contribution["newsapi"].list
                           \o contribution["naver"].list
                           \o contribution["bing"].list

\* NewsAPI failed, and the list handed on holds Naver's and Bing's articles
C16_Witness ==
    /\ fpc = "dedup"
    /\ contribution["newsapi"].called /\ contribution["newsapi"].failed
    /\ env.newsApiKey
    /\ Len(contribution["naver"].list) > 0
    /\ Len(allArticles) = Len(contribution["naver"].list) + 3

(***************************************************************************)
(* C17: getTrendingTopics never returns an empty list, and when the table  *)
(* holds no article of the trailing 7 days that has a category (and the    *)
(* query succeeds) it returns the three fallback trends.                   *)
(***************************************************************************)
CategorisedInWindow ==
    {r \in table : r.publishedAt >= today - 7 /\ r.category # NullCategory}

C17_TrendsNeverEmpty ==
    tpc = "done" =>
        /\ Len(trendResult) > 0
        /\ ~storeFailed /\ CategorisedInWindow = {}
              => trendResult = FallbackTrends

\* a table with rows, none of them countable, gave the fallback trends
C17_Witness ==
    /\ tpc = "done"
    /\ ~storeFailed
    /\ table # {}
    /\ CategorisedInWindow = {}
    /\ trendResult = FallbackTrends

(***************************************************************************)
(* C18: in every returned trend the direction is up exactly when the       *)
(* returned changePercent is above 2, down exactly when it is below -2,    *)
(* and stable otherwise (changePercent is held in tenths).                 *)
(***************************************************************************)
C18_DirectionAgrees ==
    tpc = "done" =>
        \A i \in 1..Len(trendResult) :
            trendResult[i].trendDirection =
                IF trendResult[i].changePercent > 20 THEN "up"
                ELSE IF trendResult[i].changePercent < -20 THEN "down"
                ELSE "stable"

(***************************************************************************)
(* C19: when the table holds articles of the trailing 7 days with a        *)
(* category, every returned trend's articleCount is the number of such     *)
(* articles of its category in the table.                                  *)
(***************************************************************************)
C19_CountsMatchStore ==
    tpc = "done" /\ ~storeFailed /\ CategorisedInWindow # {} =>
        \A i \in 1..Len(trendResult) :
            trendResult[i].articleCount =
                Cardinality({r \in CategorisedInWindow :
                                DisplayName(r.category) = trendResult[i].category})

(***************************************************************************)
(* C20: when the store call of getTrendingTopics fails, the call raises to *)
(* its caller instead of returning a list.                                 *)
(***************************************************************************)
C20_StoreFailurePropagates == storeFailed => tpc = "raised"

(***************************************************************************)
(* Properties of searchNews as a whole and of the scheduled jobs.          *)
(***************************************************************************)
\* C21: a searchNews call with an empty keyword is refused before anything
\* is fetched: it calls no adapter and gathers no article to persist.
C21_EmptyKeywordRejected ==
    keyword = "" =>
        /\ pendingFetch = {}
        /\ \A a \in DOMAIN contribution : ~contribution[a].called
        /\ allArticles = <<>>

\* C22: a summary email goes out in the subscription's delivery hour, from a
\* PDF that was prepared in the hour before it.
C22_SentAtDeliveryHour ==
    \A e \in mailed :
        /\ e.preparedAt = ProcessingHour(DeliveryHourOf(e.sub))
        /\ e.sentAt = DeliveryHourOf(e.sub)

\* C23: during one run never more than 10 embedding requests are in flight,
\* whatever the number of phase-1 survivors; the function goes past its
\* await only when every survivor's request has been started and has
\* resolved, and it does get past it.
AtMostTenInFlight == Cardinality(active) <= ConcurrencyLimit
AllAwaitedFirst ==
    epc = "awaited" => queued = <<>> /\ active = {} /\ resolved = 1..toEmbed
C23_BoundedEmbeddingRequests ==
    /\ [](AtMostTenInFlight /\ AllAwaitedFirst)
    /\ <>(epc = "awaited")

\* ten requests are in flight and an eleventh waits in the queue
C23_Witness ==
    /\ Cardinality(active) = ConcurrencyLimit
    /\ queued # <<>>
    /\ resolved = {}

\* C24: the scans of one tick never all run at the same time when there is
\* more than one active subscription: a cap that does not grow with the
\* number of subscriptions keeps some of them waiting.
ScansOfTick(t) == {scan \in scans : scan.now = t}
C24_ScansCapped ==
    \A t \in 0..MaxClock :
        Cardinality(ScansOfTick(t)) < Cardinality(Subscriptions)

\* C25: with source unset or "all" the adapters are queried concurrently (by
\* the time an adapter has returned, every adapter after it has been
\* called), and allArticles holds their results in the order newsapi,
\* naver, bing.
AdapterOrder == <<"newsapi", "naver", "bing">>
C25_AdaptersQueriedConcurrently ==
    source \in {"", "all"} =>
        /\ \A i, j \in 1..Len(AdapterOrder) :
              i < j /\ contribution[AdapterOrder[i]].called =>
                  \/ AdapterOrder[j] \in pendingFetch
                  \/ contribution[AdapterOrder[j]].called
        /\ fpc = "dedup" =>
              allArticles = contribution["newsapi"].list
                            \o contribution["naver"].list
                            \o contribution["bing"].list

\* C26: for one subscription no article is counted as new by more than one
\* scan: the articles a returning scan counts as new were counted by no
\* scan of that subscription before it.
CountsOnlyUncounted ==
    finished' # finished =>
        \A f \in finished' :
            \A i \in 1..Len(NewOf(f)) : NewOf(f)[i].url \notin counted[f.sub]
C26_CountedAtMostOnce == [][CountsOnlyUncounted]_vars

\* C27: the list a searchNews call returns holds no persisted article
\* twice: no two of its entries have the same url or the same id.
C27_NoArticleTwice ==
    \A p \in Calls :
        spc[p] = "done" =>
            \A i, j \in 1..Len(sorted[p]) :
                i # j => /\ sorted[p][i].url # sorted[p][j].url
                         /\ sorted[p][i].id # sorted[p][j].id

\* C28: when the semantic phase ran, its output holds no two articles that
\* both have an embedding and are similar (cosine similarity >= 0.85).
C28_NoSimilarPairInOutput ==
    SemanticRan =>
        \A i, j \in 1..Len(semanticDeduped) :
            /\ i < j
            /\ HasEmbedding(semanticDeduped[i])
            /\ HasEmbedding(semanticDeduped[j])
            => ~areArticlesSimilar(semanticDeduped[i].embedding,
                                   semanticDeduped[j].embedding)

(***************************************************************************)
(* Properties of the websocket registry and of the bookmark routes.        *)
(***************************************************************************)
\* C29: every socket in the registry is registered under exactly one user
\* id and is not closed (a socket whose close event was handled is in no
\* user's set), and no user id maps to an empty set.
UsersOf(ws) == {u \in DOMAIN connections : ws \in connections[u]}
C29_RegistryConsistent ==
    /\ \A u \in DOMAIN connections : connections[u] # {}
    /\ \A ws \in Sockets :
          /\ Cardinality(UsersOf(ws)) <= 1
          /\ readyState[ws] = "CLOSED" => UsersOf(ws) = {}

\* C30: a POST for a pair (userId, articleId) that already has a bookmark,
\* also one a concurrent request is creating, creates no second bookmark
\* and is answered 409 with the existing bookmark: the table never holds two
\* bookmarks of one pair, and a valid request that did not create its
\* bookmark got 409 and the bookmark of its pair.
C30_DuplicateAnswered409 ==
    /\ \A b1, b2 \in bookmarks :
          b1.userId = b2.userId /\ b1.articleId = b2.articleId => b1 = b2
    /\ \A r \in Posts :
          bpc[r] = "done" /\ Parses(body[r]) /\ reply[r].status # 201 =>
              /\ reply[r].status = 409
              /\ reply[r].bookmark # {}
              /\ reply[r].bookmark =
                    getBookmark(bookmarks, body[r].userId, body[r].articleId)

====
